---- MODULE Spec2Model ----
(***************************************************************************)
(* Model of checkpoint3/exp_utils.py: the DataProcessor (data             *)
(* preparation), the Experiment harness (validation, training, baseline,   *)
(* the per-seed trial loop of run, the metrics-to-row reducer) and the     *)
(* permutation-importance slicing of __calc_pvi.                           *)
(*                                                                         *)
(* Three specifications share the variables:                               *)
(*   Spec     the Experiment harness: construction and run                 *)
(*   SpecDP   DataProcessor construction                                   *)
(*   SpecPvi  __calc_pvi applied to a model_parts result table             *)
(*                                                                         *)
(* Abstractions.  Python None is the string "None"; a parameter mapping is *)
(* "None", "empty" ({}) or "params" (a non-empty dict).  An explanation    *)
(* artifact (SHAP values, pvi, pdp, ale, explainer handles) is identified  *)
(* by the row-index sequence of the sample it was computed on.  A duration *)
(* measured by __timeit is identified by the epoch that measured it: the   *)
(* seed of the trial, or BaselineEpoch during construction.                *)
(***************************************************************************)
EXTENDS Integers, Sequences, FiniteSets, TLC

VARIABLES
    \* ---- Experiment ----
    phase,              \* position of the constructor / of run
    cfg,                \* the constructor's arguments as stored on self
    model,              \* self.model
    base_metrics,       \* self.base_metrics
    times,              \* self.times
    no_tests,           \* run's argument
    save_path,          \* run's argument
    seed,               \* run's loop variable
    ids_compressed,     \* run's local
    ids_random,         \* run's local
    compressed_metrics, \* run's local
    random_metrics,     \* run's local
    exp_results,        \* run's local: the results table
    returned,           \* what run returned to its caller
    saved,              \* what to_parquet wrote to save_path
    failed,             \* the seed whose trial raised
    \* ---- DataProcessor ----
    dp_phase, dp, clean_df, dpX, dpy, X_train, X_test, y_train, y_test,
    \* ---- __calc_pvi ----
    pvi_phase, pvi_ncols, pvi_result, pvi_out

expVars == <<phase, cfg, model, base_metrics, times, no_tests, save_path, seed,
             ids_compressed, ids_random, compressed_metrics, random_metrics,
             exp_results, returned, saved, failed>>
dpVars == <<dp_phase, dp, clean_df, dpX, dpy, X_train, X_test, y_train, y_test>>
pviVars == <<pvi_phase, pvi_ncols, pvi_result, pvi_out>>
vars == <<expVars, dpVars, pviVars>>

\* ------------------------------------------------------------------ bounds
\* rows of the test partition handed to the Experiment
NumRows == 2
\* largest no_tests passed to run
MaxTests == 2
\* most rows of a raw table handed to the DataProcessor
MaxRowsDf == 2
\* most feature columns of the X handed to __calc_pvi
MaxFeatures == 2
\* largest dropout_loss in a model_parts result table
MaxLoss == 3

\* ------------------------------------------------------------- conventions
None == "None"
\* an empty dict; also stands for "no bundle" / "no table" where a dict or a
\* table has not been built (a built bundle always has the keys X and y)
EmptyDict == <<>>
NoSeed == 0 - 1
BaselineEpoch == 0 - 1

Range(s) == {s[i] : i \in 1..Len(s)}

\* dict.update: d with the entries of e written over it
Update(d, e) ==
    [k \in (DOMAIN d) \cup (DOMAIN e) |-> IF k \in DOMAIN e THEN e[k] ELSE d[k]]

\* a dict holding the keys ks, each with value v
Dict(ks, v) == [k \in ks |-> v]

\* duplicate-free sequences over S
DistinctSeqs(S) ==
    UNION {{s \in [1..n -> S] : \A i, j \in 1..n : i # j => s[i] # s[j]} :
           n \in 0..Cardinality(S)}

\* ------------------------------------------------------- Experiment: inputs
ClassVals == {None, "class"}
ParamVals == {None, "empty", "params"}
\* pdp_params and ale_params are drawn without the empty dict, which the code
\* treats exactly as a non-empty one (both are tested with "is None" only)
OptParamVals == {None, "params"}

Configs ==
    [shap_class : ClassVals, shap_params : ParamVals,
     is_tree : BOOLEAN,
     dalex_class : ClassVals, dalex_params : ParamVals,
     pvi_params : ParamVals, pdp_params : OptParamVals,
     ale_params : OptParamVals]

NoConfig ==
    [shap_class |-> None, shap_params |-> None, is_tree |-> TRUE,
     dalex_class |-> None, dalex_params |-> None,
     pvi_params |-> None, pdp_params |-> None, ale_params |-> None]

\* data_processor.X_test: the positional row indices of the test partition
TestRows == 0..(NumRows - 1)
XTest == [i \in 1..NumRows |-> i - 1]

\* -------------------------------------------------- Experiment: validation
\* variant: the assertion of line 107 (shap_class => shap_params) left out
AssertsPassNoShapCheck(c) ==
    /\ c.dalex_class = None \/ c.dalex_params # None
    /\ c.pvi_params = None \/ c.dalex_class # None
    /\ c.pdp_params = None \/ c.pvi_params # None
    /\ c.ale_params = None \/ c.pvi_params # None

\* the five assertions of Experiment.__init__, lines 107-111, in order
AssertsPass(c) ==
    /\ c.shap_class = None \/ c.shap_params # None
    /\ c.dalex_class = None \/ c.dalex_params # None
    /\ c.pvi_params = None \/ c.dalex_class # None
    /\ c.pdp_params = None \/ c.pvi_params # None
    /\ c.ale_params = None \/ c.pvi_params # None

\* ------------------------------------------------------ Experiment: timing
\* variant: a duration already in the table is not overwritten
TimeitKeepFirst(t, name, epoch) ==
    IF name \in DOMAIN t THEN t ELSE Update(t, Dict({name}, epoch))

\* __timeit: self.times[name] = et - st
Timeit(t, name, epoch) == Update(t, Dict({name}, epoch))

\* ----------------------------------------------------- Experiment: metrics
\* Each __calc_* returns [ret |-> the dict it returns, times |-> self.times].

CalcShap(c, t, data, name, epoch) ==
    IF c.shap_class = None
    THEN [ret |-> EmptyDict, times |-> t]
    ELSE [ret |-> Dict({"shap_exp", "shap_sv", "shap_svi"}, data),
          times |-> Timeit(t, name, epoch)]

CalcPvi(c, t, X, name, epoch) ==
    IF c.pvi_params = None
    THEN [ret |-> EmptyDict, times |-> t]
    ELSE [ret |-> Dict({"pvi"}, X), times |-> Timeit(t, name, epoch)]

\* __calc_pdp_ale: one timed model_profile call
CalcPdpAle(t, X, name, epoch) == [ret |-> X, times |-> Timeit(t, name, epoch)]

\* variant: the profile is computed whenever pvi_params is given
CalcPdpWheneverPvi(c, t, X, name, epoch) ==
    IF c.pvi_params = None
    THEN [ret |-> EmptyDict, times |-> t]
    ELSE [ret |-> Dict({"pdp"}, CalcPdpAle(t, X, name, epoch).ret),
          times |-> CalcPdpAle(t, X, name, epoch).times]

CalcPdp(c, t, X, name, epoch) ==
    IF c.pdp_params = None
    THEN [ret |-> EmptyDict, times |-> t]
    ELSE [ret |-> Dict({"pdp"}, CalcPdpAle(t, X, name, epoch).ret),
          times |-> CalcPdpAle(t, X, name, epoch).times]

CalcAle(c, t, X, name, epoch) ==
    IF c.ale_params = None
    THEN [ret |-> EmptyDict, times |-> t]
    ELSE [ret |-> Dict({"ale"}, CalcPdpAle(t, X, name, epoch).ret),
          times |-> CalcPdpAle(t, X, name, epoch).times]

\* __calculate_metrics(X, y, name_suffix): [ret |-> sample_metrics, times]
CalculateMetrics(c, t, X, name_suffix, epoch) ==
    LET shap == CalcShap(c, t, X, "sv_" \o name_suffix, epoch)
        m1 == Update(Dict({"X", "y"}, X), shap.ret)
    IN  IF c.dalex_class = None
        THEN [ret |-> m1, times |-> shap.times]
        ELSE
        LET m2 == Update(m1, Dict({"dx_exp"}, X))
            pvi == CalcPvi(c, shap.times, X, "pvi_" \o name_suffix, epoch)
            m3 == Update(m2, pvi.ret)
            pdp == CalcPdp(c, pvi.times, X, "pdp_" \o name_suffix, epoch)
            m4 == Update(m3, pdp.ret)
            ale == CalcAle(c, pdp.times, X, "ale_" \o name_suffix, epoch)
            m5 == Update(m4, ale.ret)
        IN  [ret |-> m5, times |-> ale.times]

\* ----------------------------------------------- Experiment: row reducer
ExpNames == <<"svi", "pvi", "pdp", "ale">>
MetricKeys == <<"shap_svi", "pvi", "pdp", "ale">>

\* calculate_diffs(exp_name, metric_key): the columns it contributes
CalculateDiffs(base, i) ==
    IF MetricKeys[i] \notin DOMAIN base
    THEN {}
    ELSE {ExpNames[i] \o "_random", ExpNames[i] \o "_compressed"}

\* next_row of exp_results_to_df: column -> cell.  A time_* cell holds the
\* duration copied from the timing table; the numeric value of the other
\* cells is not modelled (0).
NextRow(base, t) ==
    LET perf == IF "dx_exp" \in DOMAIN base THEN {"model_performance"} ELSE {}
        diffs == UNION {CalculateDiffs(base, i) : i \in 1..Len(MetricKeys)}
        wd == {"wd_random", "wd_compressed"}
        svwd == IF "shap_sv" \in DOMAIN base
                THEN {"sv_wd_random", "sv_wd_compressed"} ELSE {}
        timecols == [col \in {"time_" \o k : k \in DOMAIN t} |->
                        LET k == CHOOSE k \in DOMAIN t : col = "time_" \o k
                        IN  t[k]]
    IN  Update(Dict(perf \cup diffs \cup wd \cup svwd, 0), timecols)

\* variant: the new row replaces the table instead of being appended
ExpResultsToDfReplace(df, base, t, s) ==
    <<[index |-> s, cells |-> NextRow(base, t)]>>

\* exp_results_to_df: pd.concat([df, new_row]) with new_row indexed by seed
ExpResultsToDf(df, base, t, s) ==
    Append(df, [index |-> s, cells |-> NextRow(base, t)])

\* ------------------------------------------------- Experiment: sampling
\* compress.compress(X, halve, g): an index-selection oracle.  kt.thin is
\* called with unique=True, so no row index is returned twice.
CompressOracle == DistinctSeqs(TestRows)

\* variant: np.random.choice(n, size=size, replace=True)
RandomChoiceWithReplacement(n, size) == [1..size -> 0..(n - 1)]

\* np.random.choice(n, size=size, replace=False): the possible draws
RandomChoice(n, size) ==
    {s \in [1..size -> 0..(n - 1)] : \A i, j \in 1..size : i # j => s[i] # s[j]}

\* ---------------------------------------------------- Experiment: actions
RunIdle ==
    /\ no_tests = 0 /\ save_path = None /\ seed = NoSeed
    /\ ids_compressed = <<>> /\ ids_random = <<>>
    /\ compressed_metrics = EmptyDict /\ random_metrics = EmptyDict
    /\ exp_results = <<>> /\ returned = None /\ saved = None
    /\ failed = NoSeed

runVars == <<no_tests, save_path, seed, ids_compressed, ids_random,
             compressed_metrics, random_metrics, exp_results, returned, saved,
             failed>>

InitExp ==
    /\ phase = "new"
    /\ cfg = NoConfig
    /\ model = None
    /\ base_metrics = EmptyDict
    /\ times = EmptyDict
    /\ RunIdle

\* variant: the model is created and trained before the assertions run
ExperimentInitTrainFirst(c) ==
    /\ phase = "new"
    /\ cfg' = c
    /\ times' = EmptyDict
    /\ model' = "trained"
    /\ base_metrics' = EmptyDict
    /\ phase' = IF AssertsPass(c) THEN "trained" ELSE "rejected"
    /\ UNCHANGED <<runVars, dpVars, pviVars>>

\* Experiment.__init__ up to and including the assertions (lines 87-111)
ExperimentInit(c) ==
    /\ phase = "new"
    /\ cfg' = c
    /\ times' = EmptyDict
    /\ model' = None
    /\ base_metrics' = EmptyDict
    /\ phase' = IF AssertsPass(c) THEN "validated" ELSE "rejected"
    /\ UNCHANGED <<runVars, dpVars, pviVars>>

\* __create_train_model: model_class(**model_params).fit(X_train, y_train)
CreateTrainModel ==
    /\ phase = "validated"
    /\ model' = "trained"
    /\ phase' = "trained"
    /\ UNCHANGED <<dpVars, pviVars>>
    /\ UNCHANGED <<cfg, base_metrics, times, runVars>>

\* __calculate_baseline: __calculate_metrics(X_test, y_test, "all")
CalculateBaseline ==
    /\ phase = "trained"
    /\ LET r == CalculateMetrics(cfg, times, XTest, "all", BaselineEpoch)
       IN  /\ base_metrics' = r.ret
           /\ times' = r.times
    /\ phase' = "ready"
    /\ UNCHANGED <<dpVars, pviVars>>
    /\ UNCHANGED <<cfg, model, runVars>>

\* model_class(...), fit or a baseline explanation call raises inside __init__
ConstructorRaises ==
    /\ phase \in {"validated", "trained"}
    /\ phase' = "ctor_raised"
    /\ UNCHANGED <<dpVars, pviVars>>
    /\ UNCHANGED <<cfg, model, base_metrics, times, runVars>>

\* run(no_tests, kernel, ...) is called: lines 261-267
Run(n, path) ==
    /\ phase = "ready"
    /\ no_tests' = n
    /\ save_path' = path
    /\ exp_results' = <<>>
    /\ seed' = IF n > 0 THEN 0 ELSE NoSeed
    /\ phase' = IF n > 0 THEN "compress" ELSE "finish"
    /\ UNCHANGED <<dpVars, pviVars>>
    /\ UNCHANGED <<cfg, model, base_metrics, times, ids_compressed, ids_random,
                   compressed_metrics, random_metrics, returned, saved, failed>>

\* lines 268-282: seed the generator, time compress.compress
Compress(ids) ==
    /\ phase = "compress"
    /\ ids_compressed' = ids
    /\ times' = Timeit(times, "kt", seed)
    /\ phase' = "random"
    /\ UNCHANGED <<dpVars, pviVars>>
    /\ UNCHANGED <<cfg, model, base_metrics, no_tests, save_path, seed,
                   ids_random, compressed_metrics, random_metrics, exp_results,
                   returned, saved, failed>>

\* lines 283-284: np.random.choice(X.shape[0], size=len(ids_compressed),
\* replace=False), timed
DrawRandom ==
    /\ phase = "random"
    /\ ids_random' \in RandomChoice(NumRows, Len(ids_compressed))
    /\ times' = Timeit(times, "random", seed)
    /\ phase' = "metrics_compressed"
    /\ UNCHANGED <<dpVars, pviVars>>
    /\ UNCHANGED <<cfg, model, base_metrics, no_tests, save_path, seed,
                   ids_compressed, compressed_metrics, random_metrics,
                   exp_results, returned, saved, failed>>

\* lines 286, 289: slice by ids_compressed and compute its bundle
MetricsCompressed ==
    /\ phase = "metrics_compressed"
    /\ LET r == CalculateMetrics(cfg, times, ids_compressed, "compressed", seed)
       IN  /\ compressed_metrics' = r.ret
           /\ times' = r.times
    /\ phase' = "metrics_random"
    /\ UNCHANGED <<dpVars, pviVars>>
    /\ UNCHANGED <<cfg, model, base_metrics, no_tests, save_path, seed,
                   ids_compressed, ids_random, random_metrics, exp_results,
                   returned, saved, failed>>

\* lines 287, 290: slice by ids_random and compute its bundle
MetricsRandom ==
    /\ phase = "metrics_random"
    /\ LET r == CalculateMetrics(cfg, times, ids_random, "random", seed)
       IN  /\ random_metrics' = r.ret
           /\ times' = r.times
    /\ phase' = "to_df"
    /\ UNCHANGED <<dpVars, pviVars>>
    /\ UNCHANGED <<cfg, model, base_metrics, no_tests, save_path, seed,
                   ids_compressed, ids_random, compressed_metrics, exp_results,
                   returned, saved, failed>>

\* lines 292-300 and the loop's next iteration: append the trial's row.  The
\* trial's locals are dead once the row is built and are cleared here.
AppendRow ==
    /\ phase = "to_df"
    /\ exp_results' = ExpResultsToDf(exp_results, base_metrics, times, seed)
    /\ seed' = seed + 1
    /\ phase' = IF seed + 1 < no_tests THEN "compress" ELSE "finish"
    /\ ids_compressed' = <<>> /\ ids_random' = <<>>
    /\ compressed_metrics' = EmptyDict /\ random_metrics' = EmptyDict
    /\ UNCHANGED <<dpVars, pviVars>>
    /\ UNCHANGED <<cfg, model, base_metrics, times, no_tests, save_path,
                   returned, saved, failed>>

\* lines 303-306: optional to_parquet, then return exp_results
Finish ==
    /\ phase = "finish"
    /\ saved' = IF save_path # None THEN exp_results ELSE None
    /\ returned' = exp_results
    /\ phase' = "done"
    /\ UNCHANGED <<dpVars, pviVars>>
    /\ UNCHANGED <<cfg, model, base_metrics, times, no_tests, save_path, seed,
                   ids_compressed, ids_random, compressed_metrics,
                   random_metrics, exp_results, failed>>

TrialSteps == {"compress", "random", "metrics_compressed", "metrics_random", "to_df"}

\* variant: the exception is caught and the loop goes on to the next seed
TrialRaisesSkipSeed ==
    /\ phase \in TrialSteps
    /\ failed' = seed
    /\ seed' = seed + 1
    /\ phase' = IF seed + 1 < no_tests THEN "compress" ELSE "finish"
    /\ ids_compressed' = <<>> /\ ids_random' = <<>>
    /\ compressed_metrics' = EmptyDict /\ random_metrics' = EmptyDict
    /\ UNCHANGED <<dpVars, pviVars>>
    /\ UNCHANGED <<cfg, model, base_metrics, times, no_tests, save_path,
                   exp_results, returned, saved>>

\* An external call of the trial raises.  run has no try/except: the frame
\* unwinds, its locals are gone, nothing is saved and nothing is returned.
TrialRaises ==
    /\ phase \in TrialSteps
    /\ failed' = seed
    /\ phase' = "aborted"
    /\ exp_results' = <<>>
    /\ ids_compressed' = <<>> /\ ids_random' = <<>>
    /\ compressed_metrics' = EmptyDict /\ random_metrics' = EmptyDict
    /\ UNCHANGED <<dpVars, pviVars>>
    /\ UNCHANGED <<cfg, model, base_metrics, times, no_tests, save_path, seed,
                   returned, saved>>

\* =========================================================== DataProcessor
TEST_SIZE_TENTHS == 4

NaN == "NaN"
Vals == {NaN, "0", "1"}
Columns == {"a", "t"}

\* a DataFrame: its column labels and its rows (column -> cell)
Frame(cols, rows) == [columns |-> cols, rows |-> rows]

\* stands for None where a DataFrame is expected (df, clean_df)
NoFrame == Frame({}, <<>>)

Tables ==
    {Frame(Columns, r) : r \in UNION {[1..n -> [Columns -> Vals]] : n \in 0..MaxRowsDf}}

\* to_drop, to_cat, to_one_hot: no column, or the feature column
ColLists == {{}, {"a"}}

\* stands for None where an array or a sequence of rows is expected
NoArray == <<>>

\* the arrays passed as X and y in the features + labels mode
XArray == <<"0", "1">>
yArray == <<"1", "0">>

DPArgs ==
    [df : Tables \cup {NoFrame}, target : {None, "t"},
     X : {NoArray, XArray}, y : {NoArray, yArray},
     to_drop : ColLists, to_cat : ColLists, to_one_hot : ColLists,
     dropna : BOOLEAN, train_eq_test : BOOLEAN]

\* line 22: assert (df and target) or (X and y)
AssertDataSource(a) ==
    \/ a.df # NoFrame /\ a.target # None
    \/ a.X # NoArray /\ a.y # NoArray

\* pd.DataFrame(array) with its column label coerced to str
DataFrameOf(arr) ==
    Frame({"0"}, [i \in 1..Len(arr) |-> [c \in {"0"} |-> arr[i]]])

\* DataFrame.drop(columns=cols)
DropCols(f, cols) ==
    Frame(f.columns \ cols,
          [i \in 1..Len(f.rows) |-> [c \in f.columns \ cols |-> f.rows[i][c]]])

HasNaN(row) == \E c \in DOMAIN row : row[c] = NaN

\* variant: rows with missing values are kept
DropNaKeepsAll(f) == f

\* DataFrame.dropna()
DropNa(f) == Frame(f.columns, SelectSeq(f.rows, LAMBDA r : ~HasNaN(r)))

\* pd.get_dummies(f, columns=cols): each listed column is replaced by one
\* indicator column per value present in it
GetDummies(f, cols) ==
    LET present(c) == {f.rows[i][c] : i \in 1..Len(f.rows)} \ {NaN}
        kept == f.columns \ cols
        dummies == {<<c, v>> \in cols \X Vals : v \in present(c)}
        label(d) == d[1] \o "_" \o d[2]
        newcols == kept \cup {label(d) : d \in dummies}
    IN  Frame(newcols,
              [i \in 1..Len(f.rows) |->
                  [k \in newcols |->
                      IF k \in kept THEN f.rows[i][k]
                      ELSE LET d == CHOOSE d \in dummies : label(d) = k
                           IN  IF f.rows[i][d[1]] = d[2] THEN "1" ELSE "0"]])

\* __preprocess_data: [err, clean_df, X, y]; err is a KeyError of pandas for
\* a column that is no longer there
PreprocessData(a) ==
    IF a.df = NoFrame
    THEN [err |-> FALSE, clean_df |-> NoFrame,
          X |-> DataFrameOf(a.X).rows, y |-> DataFrameOf(a.y).rows]
    ELSE
    LET dropErr == ~(a.to_drop \subseteq a.df.columns)
        d1 == IF a.to_drop # {} THEN DropCols(a.df, a.to_drop) ELSE a.df
        d2 == IF a.dropna THEN DropNa(d1) ELSE d1
        catErr == ~(a.to_cat \subseteq d2.columns)
        d3 == DropCols(d2, a.to_cat)
        hotErr == ~(a.to_one_hot \subseteq d3.columns)
        d4 == IF a.to_one_hot # {} THEN GetDummies(d3, a.to_one_hot) ELSE d3
    IN  IF dropErr \/ catErr \/ hotErr
        THEN [err |-> TRUE, clean_df |-> NoFrame, X |-> a.X, y |-> a.y]
        ELSE [err |-> FALSE, clean_df |-> d4, X |-> a.X, y |-> a.y]

Perms(n) == {p \in [1..n -> 1..n] : \A i, j \in 1..n : i # j => p[i] # p[j]}

\* the rows of s at positions p[lo], ..., p[hi]
Take(s, p, lo, hi) == [i \in 1..(hi - lo + 1) |-> s[p[lo + i - 1]]]

TakeOpt(s, p, lo, hi) == IF s = NoArray THEN NoArray ELSE Take(s, p, lo, hi)

SplitError ==
    [err |-> TRUE, X_train |-> NoArray, X_test |-> NoArray,
     y_train |-> NoArray, y_test |-> NoArray]

\* n_test = ceil(test_size * n_samples) with test_size = TEST_SIZE
NTest(n) == (TEST_SIZE_TENTHS * n + 9) \div 10

\* sklearn's train_test_split(X, y, test_size, random_state): the possible
\* results.  The shuffle is a permutation fixed by random_state; a split that
\* would leave the train set empty is a ValueError; with y = None the call
\* raises or passes None through, depending on the library version.
TrainTestSplit(X, y) ==
    LET n == Len(X)
        nt == NTest(n)
    IN  IF n - nt = 0
        THEN {SplitError}
        ELSE {[err |-> FALSE,
               X_test |-> Take(X, p, 1, nt), X_train |-> Take(X, p, nt + 1, n),
               y_test |-> TakeOpt(y, p, 1, nt),
               y_train |-> TakeOpt(y, p, nt + 1, n)] : p \in Perms(n)}
             \cup (IF y = NoArray THEN {SplitError} ELSE {})

\* __split_data, given what __preprocess_data left on self: the possible
\* [err, X, y, X_train, X_test, y_train, y_test]
SplitData(a, pre) ==
    LET X == IF pre.X = NoArray
             THEN DropCols(pre.clean_df, {a.target}).rows ELSE pre.X
        y == IF pre.X = NoArray
             THEN [i \in 1..Len(pre.clean_df.rows) |-> pre.clean_df.rows[i][a.target]]
             ELSE pre.y
        with(r) == [err |-> r.err, X |-> X, y |-> y,
                    X_train |-> r.X_train, X_test |-> r.X_test,
                    y_train |-> r.y_train, y_test |-> r.y_test]
    IN  IF a.train_eq_test
        THEN {[err |-> FALSE, X |-> X, y |-> y, X_train |-> X, X_test |-> X,
               y_train |-> y, y_test |-> y]}
        ELSE {with(r) : r \in TrainTestSplit(X, y)}

InitDPIdle ==
    /\ dp_phase = "new" /\ dp = None /\ clean_df = NoFrame /\ dpX = NoArray
    /\ dpy = NoArray /\ X_train = NoArray /\ X_test = NoArray
    /\ y_train = NoArray /\ y_test = NoArray

\* DataProcessor.__init__: the assertion, __preprocess_data, __split_data
DataProcessorInit(a) ==
    /\ dp_phase = "new"
    /\ dp' = a
    /\ IF ~AssertDataSource(a)
       THEN /\ dp_phase' = "rejected"
            /\ UNCHANGED <<clean_df, dpX, dpy, X_train, X_test, y_train, y_test>>
       ELSE LET pre == PreprocessData(a)
            IN  IF pre.err
                THEN /\ dp_phase' = "raised"
                     /\ UNCHANGED <<clean_df, dpX, dpy, X_train, X_test,
                                    y_train, y_test>>
                ELSE \E r \in SplitData(a, pre) :
                        /\ clean_df' = pre.clean_df
                        /\ dpX' = r.X
                        /\ dpy' = r.y
                        /\ X_train' = r.X_train /\ X_test' = r.X_test
                        /\ y_train' = r.y_train /\ y_test' = r.y_test
                        /\ dp_phase' = IF r.err THEN "raised" ELSE "constructed"
    /\ UNCHANGED <<expVars, pviVars>>

\* ============================================================= __calc_pvi
\* column labels in the order str comparison gives them
NameOrder == <<"_baseline_", "_full_model_", "a", "b", "c", "d">>
NameRank(v) == CHOOSE i \in 1..Len(NameOrder) : NameOrder[i] = v

Synthetic == {"_baseline_", "_full_model_"}

\* the columns of an X with n feature columns
Features(n) == {NameOrder[i] : i \in (Cardinality(Synthetic) + 1)..(Cardinality(Synthetic) + n)}

\* dx_exp.model_parts(...).result for an X with n feature columns: one row
\* per feature plus the two synthetic rows, in ascending dropout_loss (the
\* explainer sorts the mean losses), ties in any order
ResultTables(n) ==
    {t \in [1..(n + 2) -> [variable : Features(n) \cup Synthetic,
                            dropout_loss : 1..MaxLoss]] :
        /\ \A i, j \in 1..(n + 2) : i # j => t[i].variable # t[j].variable
        /\ \A i \in 1..(n + 1) : t[i].dropout_loss <= t[i + 1].dropout_loss}

\* DataFrame.iloc[lo:hi] with 0-based, end-exclusive positions
ILoc(t, lo, hi) ==
    LET stop == IF hi > Len(t) THEN Len(t) ELSE hi
    IN  IF stop <= lo THEN <<>> ELSE [i \in 1..(stop - lo) |-> t[lo + i]]

\* DataFrame.sort_values('variable')
SortByVariable(t) ==
    [i \in 1..Len(t) |->
        CHOOSE r \in Range(t) :
            Cardinality({q \in Range(t) : NameRank(q.variable) < NameRank(r.variable)})
                = i - 1]

\* the rows of t whose variable is not synthetic, in t's order
RealRows(t) == SelectSeq(t, LAMBDA r : r.variable \notin Synthetic)

\* __calc_pvi, lines 162-165: the rows behind the pvi vector (the vector is
\* their dropout_loss) and most_important_variable
CalcPviResult(t, ncols) ==
    LET rows == SortByVariable(ILoc(t, 1, ncols))
    IN  [rows |-> rows,
         pvi |-> [i \in 1..Len(rows) |-> rows[i].dropout_loss],
         most_important_variable |-> RealRows(t)[Len(RealRows(t))].variable]

NoPvi == [rows |-> <<>>, pvi |-> <<>>, most_important_variable |-> None]

InitPviIdle ==
    /\ pvi_phase = "idle" /\ pvi_ncols = 0 /\ pvi_result = <<>> /\ pvi_out = NoPvi

InitPvi ==
    /\ pvi_phase = "called"
    /\ pvi_ncols \in 1..MaxFeatures
    /\ pvi_result \in ResultTables(pvi_ncols)
    /\ pvi_out = NoPvi

\* __calc_pvi returns
CalcPviReturn ==
    /\ pvi_phase = "called"
    /\ pvi_out' = CalcPviResult(pvi_result, pvi_ncols)
    /\ pvi_phase' = "returned"
    /\ UNCHANGED <<pvi_ncols, pvi_result, expVars, dpVars>>

Init == InitExp /\ InitDPIdle /\ InitPviIdle

Next ==
    \/ \E c \in Configs : ExperimentInit(c)
    \/ CreateTrainModel
    \/ CalculateBaseline
    \/ ConstructorRaises
    \/ \E n \in 0..MaxTests, path \in {None, "path"} : Run(n, path)
    \/ \E ids \in CompressOracle : Compress(ids)
    \/ DrawRandom
    \/ MetricsCompressed
    \/ MetricsRandom
    \/ AppendRow
    \/ Finish
    \/ TrialRaises

Spec == Init /\ [][Next]_vars

NextDP == dp_phase = "new" /\ \E a \in DPArgs : DataProcessorInit(a)

SpecDP == Init /\ [][NextDP]_vars

NextPvi == CalcPviReturn

InitPviCall == InitExp /\ InitDPIdle /\ InitPvi

SpecPvi == InitPviCall /\ [][NextPvi]_vars

\* ================================================= claims on the Experiment

\* the four configuration rules, as the claim words them
RuleViolated(c) ==
    \/ c.shap_class # None /\ c.shap_params = None
    \/ c.dalex_class # None /\ c.dalex_params = None
    \/ c.pvi_params # None /\ c.dalex_class = None
    \/ (c.pdp_params # None \/ c.ale_params # None) /\ c.pvi_params = None

Accepted == phase \notin {"new", "rejected"}

\* C1: a configuration that breaks one of the rules (class without params,
\* pvi without dalex, pdp or ale without pvi) is rejected by an assertion
\* while model and base_metrics are still None; every other configuration
\* passes validation and construction goes on to training.
C1_ValidationFailsFast ==
    phase # "new" =>
        /\ RuleViolated(cfg) =>
              phase = "rejected" /\ model = None /\ base_metrics = EmptyDict
        /\ ~RuleViolated(cfg) =>
              /\ Accepted
              /\ phase = "validated" => ENABLED CreateTrainModel
              /\ phase = "trained" => ENABLED CalculateBaseline

C1_Witness ==
    /\ phase = "rejected"
    /\ cfg.shap_class # None /\ cfg.shap_params = "params"
    /\ cfg.pvi_params # None /\ cfg.dalex_class = None

\* C2 as stated: in every accepted Experiment a configured shap_class has a
\* non-empty shap_params and a configured dalex_class a non-empty dalex_params.
C2_NonEmptyParams ==
    Accepted =>
        /\ cfg.shap_class # None => cfg.shap_params = "params"
        /\ cfg.dalex_class # None => cfg.dalex_params = "params"

\* C2 amended: in every accepted Experiment a configured shap_class has a
\* shap_params that is not None and a configured dalex_class a dalex_params
\* that is not None; an empty parameter set is accepted.
C2_ParamsNotNone ==
    Accepted =>
        /\ cfg.shap_class # None => cfg.shap_params # None
        /\ cfg.dalex_class # None => cfg.dalex_params # None

C2_Witness ==
    /\ phase = "ready"
    /\ cfg.shap_class # None /\ cfg.shap_params = "empty"
    /\ cfg.dalex_class # None /\ cfg.dalex_params = "empty"

\* the key set the configuration implies
ImpliedKeys(c) ==
    {"X", "y"}
    \cup (IF c.shap_class # None THEN {"shap_exp", "shap_sv", "shap_svi"} ELSE {})
    \cup (IF c.dalex_class # None THEN {"dx_exp"} ELSE {})
    \cup (IF c.pvi_params # None THEN {"pvi"} ELSE {})
    \cup (IF c.pdp_params # None THEN {"pdp"} ELSE {})
    \cup (IF c.ale_params # None THEN {"ale"} ELSE {})

\* C3: every bundle the metric computation returns (baseline, compressed,
\* random; any seed) has exactly the keys the configuration implies.
C3_BundleKeys ==
    /\ base_metrics # EmptyDict => DOMAIN base_metrics = ImpliedKeys(cfg)
    /\ compressed_metrics # EmptyDict =>
          DOMAIN compressed_metrics = ImpliedKeys(cfg)
    /\ random_metrics # EmptyDict => DOMAIN random_metrics = ImpliedKeys(cfg)

C3_Witness ==
    /\ phase = "to_df" /\ seed = 1
    /\ random_metrics # EmptyDict /\ compressed_metrics # EmptyDict
    /\ cfg.shap_class = None
    /\ cfg.pvi_params = "empty" /\ cfg.pdp_params = None /\ cfg.ale_params # None

\* C4: in every trial the compressed row indices and the random-control row
\* indices are sets of equal cardinality.
C4_EqualCardinality ==
    phase \in {"metrics_compressed", "metrics_random", "to_df"} =>
        Cardinality(Range(ids_random)) = Cardinality(Range(ids_compressed))

C4_Witness ==
    /\ phase = "to_df" /\ seed = 1
    /\ Len(ids_compressed) >= 1 /\ Range(ids_random) # Range(ids_compressed)

ShapTreeOnly(c) == c.shap_class # None /\ c.is_tree /\ c.dalex_class = None

\* C5: a completed run(no_tests = n) returns n rows indexed 0..n-1 in order;
\* with only a SHAP tree explainer configured every row has svi_*, wd_* and
\* sv_wd_* and has no pvi_*, pdp_*, ale_* diff and no model_performance.
C5_RowsAndColumns ==
    phase = "done" =>
        /\ Len(returned) = no_tests
        /\ \A i \in 1..Len(returned) : returned[i].index = i - 1
        /\ ShapTreeOnly(cfg) =>
              \A i \in 1..Len(returned) :
                  /\ {"svi_random", "svi_compressed", "wd_random",
                      "wd_compressed", "sv_wd_random", "sv_wd_compressed"}
                        \subseteq DOMAIN returned[i].cells
                  /\ DOMAIN returned[i].cells \cap
                        {"pvi_random", "pvi_compressed", "pdp_random",
                         "pdp_compressed", "ale_random", "ale_compressed",
                         "model_performance"} = {}

C5_Witness ==
    phase = "done" /\ no_tests = 2 /\ ShapTreeOnly(cfg) /\ Len(returned) = 2

\* the time_* columns of the timings a trial measures, and of the baseline's
TrialTimeCols ==
    {"time_kt", "time_random"} \cup
    {"time_" \o k \o "_" \o sfx :
        k \in {"sv", "pvi", "pdp", "ale"}, sfx \in {"compressed", "random"}}

BaselineTimeCols == {"time_" \o k \o "_all" : k \in {"sv", "pvi", "pdp", "ale"}}

\* C8 as stated: after a run of two or more trials every row's per-trial
\* time_* columns hold the timings measured in the last trial.
C8_LastTrialTimingsInEveryRow ==
    (phase = "done" /\ no_tests >= 2) =>
        \A i \in 1..Len(returned) :
            \A col \in DOMAIN returned[i].cells \cap TrialTimeCols :
                returned[i].cells[col] = no_tests - 1

\* C8 amended: the timing table holds the last trial's timings only, but
\* each row holds a copy taken when the row was built: row k has time_kt and
\* time_random, its per-trial time_* columns hold the timings measured in
\* trial k, and its time_*_all columns the timings measured at construction.
C8_RowKeepsItsOwnTimings ==
    (phase = "done" /\ no_tests >= 1) =>
        /\ \A k \in DOMAIN times :
              "time_" \o k \in TrialTimeCols => times[k] = no_tests - 1
        /\ \A i \in 1..Len(returned) :
              /\ {"time_kt", "time_random"} \subseteq DOMAIN returned[i].cells
              /\ \A col \in DOMAIN returned[i].cells \cap TrialTimeCols :
                    returned[i].cells[col] = returned[i].index
              /\ \A col \in DOMAIN returned[i].cells \cap BaselineTimeCols :
                    returned[i].cells[col] = BaselineEpoch

C8_Witness ==
    /\ phase = "done" /\ no_tests = 2 /\ Len(returned) = 2
    /\ "time_sv_random" \in DOMAIN returned[1].cells
    /\ "time_pdp_compressed" \in DOMAIN returned[1].cells
    /\ returned[1].cells["time_kt"] # returned[2].cells["time_kt"]

\* C10: once an external call of trial k has raised, the run is aborted for
\* good: the seed never advances past k, no table is returned and nothing is
\* written to save_path.
C10_FailureAbortsRun ==
    failed # NoSeed =>
        /\ phase = "aborted"
        /\ seed = failed
        /\ returned = None
        /\ saved = None

C10_Witness ==
    /\ failed = 1 /\ phase = "aborted" /\ save_path # None /\ no_tests = 2

\* ============================================== claims on the DataProcessor

DfMode(a) == a.df # NoFrame /\ a.target # None
XyMode(a) == a.X # NoArray /\ a.y # NoArray

\* C6 as stated: construction succeeds only when exactly one of the two
\* input modes, (df and target) or (X and y), is supplied.
C6_ExactlyOneMode ==
    dp_phase = "constructed" => (DfMode(dp) /\ ~XyMode(dp)) \/ (XyMode(dp) /\ ~DfMode(dp))

\* the raw-table pipeline of the claim: df and target only, default options
RawTableDefaults(a) ==
    /\ a.df # NoFrame /\ a.target # None /\ a.X = NoArray /\ a.y = NoArray
    /\ a.to_drop = {} /\ a.to_cat = {} /\ a.to_one_hot = {}
    /\ a.dropna /\ ~a.train_eq_test

NonNullPositions(f) == {i \in 1..Len(f.rows) : ~HasNaN(f.rows[i])}

\* C7 as stated: train rows + test rows = the number of distinct rows of df
\* without missing values.
C7_DeduplicatedCount ==
    (dp_phase = "constructed" /\ RawTableDefaults(dp)) =>
        Len(X_train) + Len(X_test) =
            Cardinality({dp.df.rows[i] : i \in NonNullPositions(dp.df)})

\* C7 amended: whenever the construction succeeds, train rows + test rows =
\* the number of rows of df without missing values, repeated rows counted
\* as often as they occur (nothing removes duplicates); the labels likewise.
C7_NonNullCount ==
    (dp_phase = "constructed" /\ RawTableDefaults(dp)) =>
        /\ Len(X_train) + Len(X_test) = Cardinality(NonNullPositions(dp.df))
        /\ Len(y_train) + Len(y_test) = Cardinality(NonNullPositions(dp.df))

C7_Witness ==
    /\ dp_phase = "constructed" /\ RawTableDefaults(dp)
    /\ Len(dp.df.rows) = 2 /\ dp.df.rows[1] = dp.df.rows[2]
    /\ Len(X_train) = 1 /\ Len(X_test) = 1

\* ==================================================== claims on __calc_pvi

\* C9 as stated: the pvi vector is the dropout_loss of exactly the
\* real-feature rows of the result table, ordered by variable name, and the
\* variable used for the PDP/ALE grid is the real variable with the highest
\* dropout_loss.
C9_PviCoversRealFeatures ==
    pvi_phase = "returned" =>
        /\ Len(pvi_out.pvi) = pvi_ncols
        /\ {r.variable : r \in Range(pvi_out.rows)} = Features(pvi_ncols)
        /\ \A i \in 1..Len(pvi_out.rows) :
              /\ pvi_out.rows[i] \in Range(pvi_result)
              /\ pvi_out.pvi[i] = pvi_out.rows[i].dropout_loss
        /\ \A i \in 1..(Len(pvi_out.rows) - 1) :
              NameRank(pvi_out.rows[i].variable) < NameRank(pvi_out.rows[i + 1].variable)
        /\ pvi_out.most_important_variable \in Features(pvi_ncols)
        /\ \A r \in Range(pvi_result) :
              r.variable \in Features(pvi_ncols) =>
                  \E m \in Range(pvi_result) :
                      /\ m.variable = pvi_out.most_important_variable
                      /\ r.dropout_loss <= m.dropout_loss

====
